---- MODULE Spec2Model ----
(***************************************************************************)
(* celestia-vestings: the two checkpointed fetch-aggregate-persist scripts *)
(*   src/src/vested_addresses.py     (Discovery: address pages -> vestings) *)
(*   src/src/process_withdrawals.py  (History: input rows -> withdrawals)   *)
(* and the withdrawal-amount derivation of process_address.                *)
(*                                                                         *)
(* A behaviour follows one of the scripts (variable script) through        *)
(* any number of invocations; the process may be killed at any step.       *)
(* Files are modelled by their content; a CSV file is a sequence of lines. *)
(***************************************************************************)
EXTENDS Integers, Sequences, FiniteSets, TLC

\* ------------------------------------------------------------------ bounds
\* History's BATCH_SIZE (process_withdrawals.py:16 sets 100), scaled down.
TX_BATCH_SIZE == 2
\* Discovery's BATCH_SIZE (vested_addresses.py:14 sets 100), scaled down.
BATCH_SIZE == 3
\* ThreadPoolExecutor(max_workers=5) of vested_addresses.py:69, scaled down.
max_workers == 2
\* Rows of History's input file.
NumRows == 3
\* Addresses the upstream lists.
NumUpstream == 4
\* Failed attempts of one request that the model counts; further failures
\* leave the count there (the code counts nothing and has no cap).
MaxAttempts == 2
\* Invocations of the History script in one behaviour.
MaxRuns == 3
\* Invocations of the Discovery script in one behaviour.
MaxRunsDiscovery == 2
\* Events of one transaction in the derivation's own specification.
MaxEvents == 2

\* ------------------------------------------------------------ pure helpers
Min(a, b) == IF a < b THEN a ELSE b

SeqToSet(s) == { s[k] : k \in 1..Len(s) }

Prefix(s, k) == SubSeq(s, 1, k)

\* ------------------------------------------------- strings and int parsing
\* A string is a sequence of one-character strings.
Digits == {"0", "1", "2", "3", "4", "5", "6", "7", "8", "9"}

DigitVal(c) ==
    CASE c = "0" -> 0 [] c = "1" -> 1 [] c = "2" -> 2 [] c = "3" -> 3
      [] c = "4" -> 4 [] c = "5" -> 5 [] c = "6" -> 6 [] c = "7" -> 7
      [] c = "8" -> 8 [] c = "9" -> 9

utia == <<"u", "t", "i", "a">>

\* str.endswith(suffix)
endswith(s, suffix) ==
    /\ Len(s) >= Len(suffix)
    /\ SubSeq(s, Len(s) - Len(suffix) + 1, Len(s)) = suffix

\* str.rstrip(chars): drops every trailing character that is in chars.
RECURSIVE rstrip(_, _)
rstrip(s, chars) ==
    IF s # <<>> /\ s[Len(s)] \in SeqToSet(chars)
    THEN rstrip(SubSeq(s, 1, Len(s) - 1), chars)
    ELSE s

RECURSIVE DecimalValue(_)
DecimalValue(s) ==
    IF s = <<>> THEN 0
    ELSE 10 * DecimalValue(SubSeq(s, 1, Len(s) - 1)) + DigitVal(s[Len(s)])

\* int(s) over the model's alphabet (digits and letters): a value for a
\* non-empty string of digits, ValueError (ok = FALSE) otherwise.
int(s) ==
    IF s # <<>> /\ \A k \in 1..Len(s) : s[k] \in Digits
    THEN [ok |-> TRUE, v |-> DecimalValue(s)]
    ELSE [ok |-> FALSE, v |-> 0]

\* An event is [type, has_amount, amount]: has_amount = FALSE is a data
\* dict without the key 'amount'.
\* event['data'].get('amount', default)
get_amount(event, default) ==
    IF event.has_amount THEN event.amount ELSE default

\* The generator's filter of process_address.
IsWithdrawEvent(event) ==
    /\ event.type = "withdraw_rewards"
    /\ endswith(get_amount(event, <<>>), utia)

\* The generator's term of process_address.
EventAmount(event) == int(rstrip(get_amount(event, <<"0">>), utia))

\* withdraw_amount = sum(int(...) for event in events if ...): the sum, or
\* the ValueError of the first term that does not parse.
RECURSIVE withdraw_amount(_)
withdraw_amount(events) ==
    IF events = <<>> THEN [ok |-> TRUE, v |-> 0]
    ELSE LET e == Head(events)
             rest == withdraw_amount(Tail(events))
         IN  IF ~IsWithdrawEvent(e) THEN rest
             ELSE IF ~EventAmount(e).ok THEN [ok |-> FALSE, v |-> 0]
             ELSE IF ~rest.ok THEN rest
             ELSE [ok |-> TRUE, v |-> EventAmount(e).v + rest.v]

\* ------------------------------------------------------------------- files
\* A checkpoint file: absent, unreadable ("garbage": empty or cut JSON),
\* valid JSON without the cursor key ("nokey"), or {"<key>": v} ("ok").
Absent == [st |-> "absent", v |-> 0]
Garbage == [st |-> "garbage", v |-> 0]
NoKey == [st |-> "nokey", v |-> 0]
Json(v) == [st |-> "ok", v |-> v]

\* A CSV file: whether it exists, and its lines. A line carries, beside the
\* columns the claims read (addr, n, amt), the unit it was computed for
\* (History: the input row's index; Discovery: the page's offset), which is
\* bookkeeping of the model and not a column.
NoFile == [exists |-> FALSE, lines |-> <<>>]
Header == [kind |-> "header", unit |-> -1, addr |-> 0, n |-> 0, amt |-> 0]
Line(kind, unit, addr, n, amt) ==
    [kind |-> kind, unit |-> unit, addr |-> addr, n |-> n, amt |-> amt]

\* open(path, 'a' if os.path.exists(path) else 'w'): the file exists from
\* here on, with the content it had.
open_append(file) == [exists |-> TRUE, lines |-> file.lines]

\* The lines of `file` once `k` of the buffered lines `buf` reached it.
flushed(file, buf, k) == [file EXCEPT !.lines = file.lines \o Prefix(buf, k)]

UnitsOf(file) == { file.lines[k].unit : k \in 1..Len(file.lines) } \ {-1}

\* ---------------------------------------------------------------- upstream
\* History's input file, data/vested_addresses.csv: row i (from 0) names
\* address 1 + i % 3.
addresses == [r \in 1..NumRows |-> 1 + ((r - 1) % 3)]

\* The withdrawal transactions the upstream holds for an address: one more
\* than a page, none, or exactly a page.
TxCount(a) ==
    CASE a = 1 -> TX_BATCH_SIZE + 1
      [] a = 2 -> 0
      [] OTHER -> TX_BATCH_SIZE

\* GET /address/{a}/txs?limit=TX_BATCH_SIZE&offset=: the page's length.
TxPageLen(a, offset) ==
    IF offset >= TxCount(a) THEN 0 ELSE Min(TX_BATCH_SIZE, TxCount(a) - offset)

Ev(type, amount) == [type |-> type, has_amount |-> TRUE, amount |-> amount]

\* What GET /tx/{hash}/events answers for transaction n of an address: a
\* reward withdrawal of 5 beside another event (n even) or an event of
\* another type alone (n odd); or, whenever the upstream so chooses, a
\* withdrawal whose amount has no digits.
PipelineEvents(n) ==
    { IF n % 2 = 0
      THEN << Ev("withdraw_rewards", <<"5">> \o utia), Ev("other", <<"9">> \o utia) >>
      ELSE << Ev("other", <<"9">> \o utia) >>,
      << Ev("withdraw_rewards", <<"x">> \o utia) >> }

\* GET /address?limit=&offset=: the upstream lists addresses 1..NumUpstream.
UpstreamPage(offset) ==
    [k \in 1..Min(BATCH_SIZE, IF offset >= NumUpstream THEN 0 ELSE NumUpstream - offset)
        |-> offset + k]

\* GET /address/{hash}/vestings: address a has a % 3 vesting records.
VestingIds(a) == 1..(a % 3)

\* ------------------------------------------------------------------- state
VARIABLES
    script,       \* the script this behaviour follows
    h_ckpt,       \* withdrawal_checkpoint.json
    tx_csv,       \* data/withdrawal_transactions.csv
    summary_csv,  \* data/withdrawal_summary.csv
    h,            \* the History process: its position and locals
    d_ckpt,       \* checkpoint.json
    vested_csv,   \* data/vested_addresses.csv as Discovery writes it
    d,            \* the Discovery process: its position and locals
    ev,           \* the derivation's own specification: input and result
    g             \* bookkeeping of the model, read by the properties only

vars == <<script, h_ckpt, tx_csv, summary_csv, h, d_ckpt, vested_csv, d, ev, g>>
h_vars == <<h_ckpt, tx_csv, summary_csv, h>>
d_vars == <<d_ckpt, vested_csv, d>>

\* Units of work the bookkeeping is keyed by.
Units == 0..(NumRows + NumUpstream + 2 * BATCH_SIZE)

H0 == [pc |-> "idle", last_processed_row |-> -1, i |-> -1, offset |-> 0,
       page_len |-> 0, t |-> 0, events |-> <<>>, all_transactions |-> <<>>,
       total_withdrawn |-> 0, withdraw_count |-> 0, attempts |-> 0, buf |-> <<>>]

\* futures[k] is the lookup of addresses[k]: "queued", "running", "sleeping"
\* (answered, in time.sleep(0.33)), or finished with "ok" (vestings), "none"
\* (None) or "raised" (an exception). errors: the lookups whose request
\* raised a RequestException. collected: those as_completed has handed over.
D0 == [pc |-> "idle", offset |-> 0, page |-> 0, none |-> FALSE, addresses |-> <<>>,
       futures |-> <<>>, errors |-> {}, collected |-> {},
       vested_addresses |-> <<>>, buf |-> <<>>]

EV0 == [events |-> <<>>, result |-> "none", withdraw_amount |-> 0]

\* runs: invocations so far. saves: every cursor a save finished writing.
\* at_load: the checkpoint file as this run's load found it. log: what this
\* run did, as <<operation, unit>>. had_rows: the units with lines in a sink
\* when this run started. completed: the units whose checkpoint save finished.
\* partial: the units that were in flight when a run ended early and have not
\* been completed since. due: per unit, the lines its last pass computed.
\* returned: the units whose processing returned its result. start: the
\* files as this run found them. The _before fields hold a field's value
\* (for saves, its length) as this run started.
G0 == [runs |-> 0, saves |-> <<>>, saves_before |-> 0,
       at_load |-> [st |-> "none", v |-> 0], log |-> <<>>,
       had_rows |-> {}, completed |-> {}, completed_before |-> {},
       partial |-> {}, partial_before |-> {},
       due |-> [u \in Units |-> {}], returned |-> {}, start |-> <<>>]

Init ==
    /\ script \in {"history", "discovery"}
    /\ h_ckpt \in {Absent, Garbage, NoKey}
    /\ d_ckpt \in {Absent, Garbage, NoKey}
    /\ (script = "history" => d_ckpt = Absent)
    /\ (script = "discovery" => h_ckpt = Absent)
    /\ tx_csv = NoFile
    /\ summary_csv = NoFile
    /\ vested_csv = NoFile
    /\ h = H0
    /\ d = D0
    /\ ev = EV0
    /\ g = G0

\* --------------------------------------------------------------- bookkeeping
Logged(gh, op, unit) == [gh EXCEPT !.log = Append(@, <<op, unit>>)]

\* A run ends early (killed, or an exception) with `inflight` unfinished.
EndedEarly(gh, inflight) == [gh EXCEPT !.partial = @ \cup inflight]

Started(gh, files, sinks) ==
    [gh EXCEPT !.runs = @ + 1, !.at_load = [st |-> "none", v |-> 0], !.log = <<>>,
               !.had_rows = UNION { UnitsOf(f) : f \in sinks },
               !.completed_before = gh.completed, !.partial_before = gh.partial,
               !.saves_before = Len(gh.saves), !.start = files]

Saved(gh, unit, cursor) ==
    [gh EXCEPT !.saves = Append(@, cursor), !.completed = @ \cup {unit},
               !.partial = @ \ {unit}]

\* The statement that follows `stmt` in the loop body `stmts`.
After(stmts, stmt) ==
    LET k == CHOOSE j \in 1..Len(stmts) : stmts[j] = stmt
    IN  IF k < Len(stmts) THEN stmts[k + 1] ELSE "sleep"

\* ------------------------------------------------- History: the operations
\* A load that answers an unreadable file with the default cursor.
H_load_checkpoint_best_effort(file) ==
    IF file.st = "ok"
    THEN [raised |-> FALSE, cursor |-> file.v]
    ELSE [raised |-> FALSE, cursor |-> -1]

\* A load that ignores what the file holds.
H_load_checkpoint_ignores_file(file) ==
    IF file.st \in {"absent", "ok"}
    THEN [raised |-> FALSE, cursor |-> -1]
    ELSE [raised |-> TRUE, cursor |-> 0]

\* load_checkpoint of process_withdrawals.py: json.load raises on a file
\* that is not JSON, checkpoint['last_processed_row'] on a missing key.
H_load_checkpoint(file) ==
    CASE file.st = "absent" -> [raised |-> FALSE, cursor |-> -1]
      [] file.st = "ok" -> [raised |-> FALSE, cursor |-> file.v]
      [] OTHER -> [raised |-> TRUE, cursor |-> 0]

\* The skip test off by one.
H_skip_strict(i, last_processed_row) == i < last_processed_row

\* if i <= last_processed_row: continue
H_skip(i, last_processed_row) == i <= last_processed_row

\* The checkpoint saved before the row's output is written.
H_statements_save_first == <<"save_checkpoint", "write_transactions", "write_summary">>

\* The statements of the loop body after process_address, in order.
H_statements == <<"write_transactions", "write_summary", "save_checkpoint">>

\* A retry loop that gives up at the second failure and lets it out.
H_get_transactions_except_gives_up(hh) ==
    IF hh.attempts >= 1
    THEN [H0 EXCEPT !.pc = "failed"]
    ELSE [hh EXCEPT !.pc = "tx_backoff", !.attempts = Min(@ + 1, MaxAttempts)]

\* except RequestException of get_transactions: log, sleep 5, try again.
H_get_transactions_except(hh) ==
    [hh EXCEPT !.pc = "tx_backoff", !.attempts = Min(@ + 1, MaxAttempts)]

\* except RequestException of get_transaction_events.
H_get_transaction_events_except(hh) ==
    [hh EXCEPT !.pc = "ev_backoff", !.attempts = Min(@ + 1, MaxAttempts)]

H_address(hh) == addresses[hh.i + 1]

\* A test that also ends the paging after a full page.
H_short_page_or_full(page_len) == page_len <= TX_BATCH_SIZE

\* if len(transactions) < BATCH_SIZE: break
H_short_page(page_len) == page_len < TX_BATCH_SIZE

\* The rows write_transactions_to_csv writes for all_transactions.
H_tx_lines(hh) ==
    [k \in 1..Len(hh.all_transactions) |->
        Line("tx", hh.i, H_address(hh), hh.all_transactions[k].n,
             hh.all_transactions[k].amt)]

\* A summary that counts the last page's transactions only.
H_summary_line_of_last_page(hh) ==
    Line("summary", hh.i, H_address(hh), hh.page_len, hh.total_withdrawn)

\* The row write_summary_to_csv writes.
H_summary_line(hh) ==
    Line("summary", hh.i, H_address(hh), hh.withdraw_count, hh.total_withdrawn)

\* if csvfile.tell() == 0: writer.writeheader()
H_header(file) == IF file.lines = <<>> THEN <<Header>> ELSE <<>>

\* The pcs at which input row h.i is in flight.
H_unit_pcs ==
    {"get_transactions", "tx_backoff", "tx_rate_sleep", "get_transaction_events",
     "ev_backoff", "ev_rate_sleep", "write_transactions", "write_transactions_close",
     "write_summary", "write_summary_close", "save_checkpoint", "save_checkpoint_close"}

H_inflight(hh) == IF hh.pc \in H_unit_pcs THEN {hh.i} ELSE {}

\* process_address returns: the loop body goes on with its first statement.
H_returned(hh) == [hh EXCEPT !.pc = H_statements[1]]

H_due(gh, hh) ==
    [gh EXCEPT !.due[hh.i] = SeqToSet(H_tx_lines(hh)) \cup {H_summary_line(hh)},
               !.returned = @ \cup {hh.i}]

\* -------------------------------------------------- History: the actions
H_Start ==
    /\ script = "history"
    /\ h.pc \in {"idle", "done", "failed"}
    /\ g.runs < MaxRuns
    /\ h' = [H0 EXCEPT !.pc = "load_checkpoint"]
    /\ g' = Started(g, <<h_ckpt, tx_csv, summary_csv>>, {tx_csv, summary_csv})
    /\ UNCHANGED <<script, h_ckpt, tx_csv, summary_csv, d_vars, ev>>

\* checkpoint = load_checkpoint(); addresses = list(reader)
H_Load ==
    /\ h.pc = "load_checkpoint"
    /\ LET r == H_load_checkpoint(h_ckpt)
       IN  /\ h' = IF r.raised THEN [H0 EXCEPT !.pc = "failed"]
                   ELSE [h EXCEPT !.pc = "for", !.last_processed_row = r.cursor]
           /\ g' = [g EXCEPT !.at_load = h_ckpt]
    /\ UNCHANGED <<script, h_ckpt, tx_csv, summary_csv, d_vars, ev>>

\* for i, address_data in enumerate(addresses): one iteration's head.
H_For ==
    /\ h.pc = "for"
    /\ LET n == h.i + 1
       IN  IF n >= Len(addresses)
           THEN /\ h' = [h EXCEPT !.pc = "done"]
                /\ g' = g
           ELSE IF H_skip(n, h.last_processed_row)
           THEN /\ h' = [h EXCEPT !.i = n]
                /\ g' = g
           ELSE /\ h' = [h EXCEPT !.i = n, !.pc = "get_transactions", !.offset = 0,
                                  !.all_transactions = <<>>, !.total_withdrawn = 0,
                                  !.withdraw_count = 0, !.attempts = 0]
                /\ g' = Logged(g, "process", n)
    /\ UNCHANGED <<script, h_ckpt, tx_csv, summary_csv, d_vars, ev>>

\* requests.get(.../txs, offset) answers with a page of m transactions.
H_GetTransactionsOk ==
    /\ h.pc = "get_transactions"
    /\ h' = [h EXCEPT !.pc = "tx_rate_sleep",
                      !.page_len = TxPageLen(H_address(h), h.offset), !.attempts = 0]
    /\ UNCHANGED <<script, h_ckpt, tx_csv, summary_csv, d_vars, ev, g>>

\* requests.get or raise_for_status raises a RequestException.
H_GetTransactionsErr ==
    /\ h.pc = "get_transactions"
    /\ h' = H_get_transactions_except(h)
    /\ UNCHANGED <<script, h_ckpt, tx_csv, summary_csv, d_vars, ev, g>>

\* time.sleep(5), then the while True loop requests again.
H_TxBackoff ==
    /\ h.pc = "tx_backoff"
    /\ h' = [h EXCEPT !.pc = "get_transactions"]
    /\ UNCHANGED <<script, h_ckpt, tx_csv, summary_csv, d_vars, ev, g>>

\* time.sleep(0.33); return transactions; if not transactions: break
H_TxReturn ==
    /\ h.pc = "tx_rate_sleep"
    /\ IF h.page_len = 0
       THEN /\ h' = H_returned(h)
            /\ g' = H_due(g, h)
       ELSE /\ h' = [h EXCEPT !.pc = "get_transaction_events", !.t = 0]
            /\ g' = g
    /\ UNCHANGED <<script, h_ckpt, tx_csv, summary_csv, d_vars, ev>>

H_GetEventsOk ==
    /\ h.pc = "get_transaction_events"
    /\ \E es \in PipelineEvents(h.offset + h.t) :
          h' = [h EXCEPT !.pc = "ev_rate_sleep", !.events = es, !.attempts = 0]
    /\ UNCHANGED <<script, h_ckpt, tx_csv, summary_csv, d_vars, ev, g>>

H_GetEventsErr ==
    /\ h.pc = "get_transaction_events"
    /\ h' = H_get_transaction_events_except(h)
    /\ UNCHANGED <<script, h_ckpt, tx_csv, summary_csv, d_vars, ev, g>>

H_EvBackoff ==
    /\ h.pc = "ev_backoff"
    /\ h' = [h EXCEPT !.pc = "get_transaction_events"]
    /\ UNCHANGED <<script, h_ckpt, tx_csv, summary_csv, d_vars, ev, g>>

\* time.sleep(0.33); return events; then lines 87-102 for this transaction:
\* the amount (or its ValueError, which nothing catches), the append, and at
\* the page's end the offset and the short-page break.
H_EvReturn ==
    /\ h.pc = "ev_rate_sleep"
    /\ LET w == withdraw_amount(h.events)
           h1 == [h EXCEPT !.events = <<>>,
                           !.all_transactions =
                               Append(@, [n |-> h.offset + h.t, amt |-> w.v]),
                           !.total_withdrawn = @ + w.v,
                           !.withdraw_count = @ + 1]
           h2 == [h1 EXCEPT !.offset = @ + h.page_len, !.t = 0]
       IN  IF ~w.ok
           THEN /\ h' = [H0 EXCEPT !.pc = "failed"]
                /\ g' = EndedEarly(g, {h.i})
           ELSE IF h.t + 1 < h.page_len
           THEN /\ h' = [h1 EXCEPT !.pc = "get_transaction_events", !.t = @ + 1]
                /\ g' = g
           ELSE IF H_short_page(h.page_len)
           THEN /\ h' = H_returned(h2)
                /\ g' = H_due(g, h2)
           ELSE /\ h' = [h2 EXCEPT !.pc = "get_transactions"]
                /\ g' = g
    /\ UNCHANGED <<script, h_ckpt, tx_csv, summary_csv, d_vars, ev>>

\* if transactions: write_transactions_to_csv(transactions), to the open.
H_WriteTransactionsOpen ==
    /\ h.pc = "write_transactions"
    /\ IF h.all_transactions = <<>>
       THEN /\ h' = [h EXCEPT !.pc = After(H_statements, "write_transactions")]
            /\ UNCHANGED <<tx_csv, g>>
       ELSE /\ tx_csv' = open_append(tx_csv)
            /\ h' = [h EXCEPT !.pc = "write_transactions_close",
                              !.buf = H_header(tx_csv) \o H_tx_lines(h)]
            /\ g' = Logged(g, "write_transactions", h.i)
    /\ UNCHANGED <<script, h_ckpt, summary_csv, d_vars, ev>>

\* The rows reach the file as the with block closes it.
H_WriteTransactionsClose ==
    /\ h.pc = "write_transactions_close"
    /\ tx_csv' = flushed(tx_csv, h.buf, Len(h.buf))
    /\ h' = [h EXCEPT !.pc = After(H_statements, "write_transactions"), !.buf = <<>>]
    /\ UNCHANGED <<script, h_ckpt, summary_csv, d_vars, ev, g>>

H_WriteSummaryOpen ==
    /\ h.pc = "write_summary"
    /\ summary_csv' = open_append(summary_csv)
    /\ h' = [h EXCEPT !.pc = "write_summary_close",
                      !.buf = H_header(summary_csv) \o <<H_summary_line(h)>>]
    /\ g' = Logged(g, "write_summary", h.i)
    /\ UNCHANGED <<script, h_ckpt, tx_csv, d_vars, ev>>

H_WriteSummaryClose ==
    /\ h.pc = "write_summary_close"
    /\ summary_csv' = flushed(summary_csv, h.buf, Len(h.buf))
    /\ h' = [h EXCEPT !.pc = After(H_statements, "write_summary"), !.buf = <<>>]
    /\ UNCHANGED <<script, h_ckpt, tx_csv, d_vars, ev, g>>

\* save_checkpoint(row_number): open(CHECKPOINT_FILE, 'w') truncates the file.
H_SaveOpen ==
    /\ h.pc = "save_checkpoint"
    /\ h_ckpt' = Garbage
    /\ h' = [h EXCEPT !.pc = "save_checkpoint_close"]
    /\ g' = Logged(g, "save", h.i)
    /\ UNCHANGED <<script, tx_csv, summary_csv, d_vars, ev>>

\* json.dump's text reaches the file as the with block closes it.
H_SaveClose ==
    /\ h.pc = "save_checkpoint_close"
    /\ h_ckpt' = Json(h.i)
    /\ h' = [h EXCEPT !.pc = After(H_statements, "save_checkpoint")]
    /\ g' = Saved(g, h.i, h.i)
    /\ UNCHANGED <<script, tx_csv, summary_csv, d_vars, ev>>

\* sleep(RATE_LIMIT_DELAY)
H_Sleep ==
    /\ h.pc = "sleep"
    /\ h' = [h EXCEPT !.pc = "for"]
    /\ UNCHANGED <<script, h_ckpt, tx_csv, summary_csv, d_vars, ev, g>>

\* The process is killed. Of a file being written, any prefix of the
\* buffered lines may have reached the disk.
H_Crash ==
    /\ h.pc \notin {"idle", "done", "failed"}
    /\ \E k \in 0..Len(h.buf) :
          /\ tx_csv' = IF h.pc = "write_transactions_close"
                       THEN flushed(tx_csv, h.buf, k) ELSE tx_csv
          /\ summary_csv' = IF h.pc = "write_summary_close"
                            THEN flushed(summary_csv, h.buf, k) ELSE summary_csv
    /\ h' = H0
    /\ g' = EndedEarly(g, H_inflight(h))
    /\ UNCHANGED <<script, h_ckpt, d_vars, ev>>

H_Next ==
    \/ H_Start \/ H_Load \/ H_For
    \/ H_GetTransactionsOk \/ H_GetTransactionsErr \/ H_TxBackoff \/ H_TxReturn
    \/ H_GetEventsOk \/ H_GetEventsErr \/ H_EvBackoff \/ H_EvReturn
    \/ H_WriteTransactionsOpen \/ H_WriteTransactionsClose
    \/ H_WriteSummaryOpen \/ H_WriteSummaryClose
    \/ H_SaveOpen \/ H_SaveClose \/ H_Sleep \/ H_Crash


\* ----------------------------------------------- Discovery: the operations
\* A load that ignores what the file holds.
D_load_checkpoint_ignores_file(file) ==
    IF file.st \in {"absent", "ok"}
    THEN [raised |-> FALSE, cursor |-> 0]
    ELSE [raised |-> TRUE, cursor |-> 0]

\* load_checkpoint of vested_addresses.py: json.load raises on a file that
\* is not JSON, checkpoint['offset'] on a missing key.
D_load_checkpoint(file) ==
    CASE file.st = "absent" -> [raised |-> FALSE, cursor |-> 0]
      [] file.st = "ok" -> [raised |-> FALSE, cursor |-> file.v]
      [] OTHER -> [raised |-> TRUE, cursor |-> 0]

\* except RequestException of get_addresses_batch: log, return None; the
\* caller's `if not addresses: break` then ends the loop.
D_get_addresses_batch_except(dd) ==
    [dd EXCEPT !.pc = "done", !.none = TRUE, !.addresses = <<>>]

\* A lookup that lets the RequestException out of the worker.
D_get_vesting_for_address_uncaught == "raised"

\* except RequestException of get_vesting_for_address: log, return
\* (address['hash'], None).
D_get_vesting_for_address_except == "none"

\* A handler that saves the next offset before it lets the exception out.
D_except_Exception_saves(file, dd) == Json(dd.page + BATCH_SIZE)

\* except Exception of process_all_addresses: log, raise. The checkpoint file
\* is left as it is.
D_except_Exception(file, dd) == file

\* The statements of the loop body after process_addresses_batch, in order.
D_statements == <<"write_to_csv", "save_checkpoint">>

\* offset += BATCH_SIZE
D_next_offset(offset) == offset + BATCH_SIZE

\* The rows process_addresses_batch appends for one address's vestings.
RECURSIVE D_rows(_, _, _)
D_rows(page, a, ids) ==
    IF ids = {} THEN <<>>
    ELSE LET v == CHOOSE x \in ids : \A y \in ids : x <= y
         IN  <<Line("vesting", page, a, v, 0)>> \o D_rows(page, a, ids \ {v})

\* if mode == 'w': writer.writeheader()
D_header(file) == IF ~file.exists THEN <<Header>> ELSE <<>>

D_running(dd) == { k \in 1..Len(dd.futures) : dd.futures[k] \in {"running", "sleeping"} }

D_queued(dd) == { k \in 1..Len(dd.futures) : dd.futures[k] = "queued" }

\* A pool that starts a thread for every submitted lookup.
D_pool_unbounded(dd) == TRUE

\* ThreadPoolExecutor(max_workers=5): a worker is free.
D_pool_free(dd) == Cardinality(D_running(dd)) < max_workers

\* The pcs at which page d.page is in flight.
D_unit_pcs ==
    {"process_addresses_batch", "write_to_csv", "write_to_csv_close",
     "save_checkpoint", "save_checkpoint_close"}

D_inflight(dd) == IF dd.pc \in D_unit_pcs THEN {dd.page} ELSE {}

\* ------------------------------------------------- Discovery: the actions
D_Start ==
    /\ script = "discovery"
    /\ d.pc \in {"idle", "done", "failed"}
    /\ g.runs < MaxRunsDiscovery
    /\ d' = [D0 EXCEPT !.pc = "load_checkpoint"]
    /\ g' = Started(g, <<d_ckpt, vested_csv>>, {vested_csv})
    /\ UNCHANGED <<script, d_ckpt, vested_csv, h_vars, ev>>

\* checkpoint = load_checkpoint(); offset = checkpoint['offset']
D_Load ==
    /\ d.pc = "load_checkpoint"
    /\ LET r == D_load_checkpoint(d_ckpt)
       IN  /\ d' = IF r.raised THEN [D0 EXCEPT !.pc = "failed"]
                   ELSE [d EXCEPT !.pc = "get_addresses_batch", !.offset = r.cursor]
           /\ g' = [g EXCEPT !.at_load = d_ckpt]
    /\ UNCHANGED <<script, d_ckpt, vested_csv, h_vars, ev>>

\* addresses = get_addresses_batch(offset) answers; if not addresses: break;
\* else process_addresses_batch submits one lookup per address.
D_GetAddressesBatchOk ==
    /\ d.pc = "get_addresses_batch"
    /\ LET page == UpstreamPage(d.offset)
       IN  IF page = <<>>
           THEN /\ d' = [d EXCEPT !.pc = "done", !.none = FALSE, !.addresses = page]
                /\ g' = g
           ELSE /\ d' = [d EXCEPT !.pc = "process_addresses_batch", !.none = FALSE,
                                  !.addresses = page, !.page = d.offset,
                                  !.futures = [k \in 1..Len(page) |-> "queued"],
                                  !.errors = {}, !.collected = {},
                                  !.vested_addresses = <<>>]
                /\ g' = Logged(g, "process", d.offset)
    /\ UNCHANGED <<script, d_ckpt, vested_csv, h_vars, ev>>

\* The request raises a RequestException.
D_GetAddressesBatchErr ==
    /\ d.pc = "get_addresses_batch"
    /\ d' = D_get_addresses_batch_except(d)
    /\ UNCHANGED <<script, d_ckpt, vested_csv, h_vars, ev, g>>

\* A free worker of the pool takes the oldest queued lookup and requests.
D_WorkerStart ==
    /\ d.pc = "process_addresses_batch"
    /\ D_queued(d) # {}
    /\ D_pool_free(d)
    /\ LET k == CHOOSE x \in D_queued(d) : \A y \in D_queued(d) : x <= y
       IN  d' = [d EXCEPT !.futures[k] = "running"]
    /\ UNCHANGED <<script, d_ckpt, vested_csv, h_vars, ev, g>>

\* The lookup's request answers; time.sleep(0.33) follows.
D_WorkerResponse ==
    /\ d.pc = "process_addresses_batch"
    /\ \E k \in 1..Len(d.futures) :
          /\ d.futures[k] = "running"
          /\ d' = [d EXCEPT !.futures[k] = "sleeping"]
    /\ UNCHANGED <<script, d_ckpt, vested_csv, h_vars, ev, g>>

\* return address['hash'], vestings
D_WorkerReturn ==
    /\ d.pc = "process_addresses_batch"
    /\ \E k \in 1..Len(d.futures) :
          /\ d.futures[k] = "sleeping"
          /\ d' = [d EXCEPT !.futures[k] = "ok"]
    /\ UNCHANGED <<script, d_ckpt, vested_csv, h_vars, ev, g>>

\* The lookup's request raises a RequestException.
D_WorkerErr ==
    /\ d.pc = "process_addresses_batch"
    /\ \E k \in 1..Len(d.futures) :
          /\ d.futures[k] = "running"
          /\ d' = [d EXCEPT !.futures[k] = D_get_vesting_for_address_except,
                            !.errors = @ \cup {k}]
    /\ UNCHANGED <<script, d_ckpt, vested_csv, h_vars, ev, g>>

\* The lookup raises another exception (address['hash'] of a record without
\* the key, at line 48 before the try): the future holds it.
D_WorkerRaise ==
    /\ d.pc = "process_addresses_batch"
    /\ \E k \in 1..Len(d.futures) :
          /\ d.futures[k] = "running"
          /\ d' = [d EXCEPT !.futures[k] = "raised"]
    /\ UNCHANGED <<script, d_ckpt, vested_csv, h_vars, ev, g>>

\* for future in as_completed(...): future.result() of a finished lookup:
\* its rows are appended, or its exception leaves process_all_addresses.
D_Collect ==
    /\ d.pc = "process_addresses_batch"
    /\ \E k \in 1..Len(d.futures) :
          /\ d.futures[k] \in {"ok", "none", "raised"}
          /\ k \notin d.collected
          /\ IF d.futures[k] = "raised"
             THEN /\ d' = [D0 EXCEPT !.pc = "failed"]
                  /\ d_ckpt' = D_except_Exception(d_ckpt, d)
                  /\ g' = EndedEarly(g, {d.page})
             ELSE /\ d_ckpt' = d_ckpt
                  /\ d' = [d EXCEPT !.collected = @ \cup {k},
                              !.vested_addresses =
                                  IF d.futures[k] = "ok"
                                  THEN @ \o D_rows(d.page, d.addresses[k],
                                                   VestingIds(d.addresses[k]))
                                  ELSE @]
                  /\ g' = g
    /\ UNCHANGED <<script, vested_csv, h_vars, ev>>

\* return vested_addresses
D_BatchReturn ==
    /\ d.pc = "process_addresses_batch"
    /\ d.collected = 1..Len(d.futures)
    /\ d' = [d EXCEPT !.pc = D_statements[1]]
    /\ g' = [g EXCEPT !.due[d.page] = SeqToSet(d.vested_addresses),
                      !.returned = @ \cup {d.page}]
    /\ UNCHANGED <<script, d_ckpt, vested_csv, h_vars, ev>>

\* if vested_addresses: write_to_csv(vested_addresses), to the open.
D_WriteOpen ==
    /\ d.pc = "write_to_csv"
    /\ IF d.vested_addresses = <<>>
       THEN /\ d' = [d EXCEPT !.pc = After(D_statements, "write_to_csv")]
            /\ UNCHANGED <<vested_csv, g>>
       ELSE /\ vested_csv' = open_append(vested_csv)
            /\ d' = [d EXCEPT !.pc = "write_to_csv_close",
                              !.buf = D_header(vested_csv) \o d.vested_addresses]
            /\ g' = Logged(g, "write_to_csv", d.page)
    /\ UNCHANGED <<script, d_ckpt, h_vars, ev>>

D_WriteClose ==
    /\ d.pc = "write_to_csv_close"
    /\ vested_csv' = flushed(vested_csv, d.buf, Len(d.buf))
    /\ d' = [d EXCEPT !.pc = After(D_statements, "write_to_csv"), !.buf = <<>>]
    /\ UNCHANGED <<script, d_ckpt, h_vars, ev, g>>

\* offset += BATCH_SIZE; save_checkpoint(offset): open(..., 'w') truncates.
D_SaveOpen ==
    /\ d.pc = "save_checkpoint"
    /\ d_ckpt' = Garbage
    /\ d' = [d EXCEPT !.pc = "save_checkpoint_close", !.offset = D_next_offset(@)]
    /\ g' = Logged(g, "save", d.page)
    /\ UNCHANGED <<script, vested_csv, h_vars, ev>>

D_SaveClose ==
    /\ d.pc = "save_checkpoint_close"
    /\ d_ckpt' = Json(d.offset)
    /\ d' = [d EXCEPT !.pc = After(D_statements, "save_checkpoint")]
    /\ g' = Saved(g, d.page, d.offset)
    /\ UNCHANGED <<script, vested_csv, h_vars, ev>>

\* time.sleep(0.33)
D_Sleep ==
    /\ d.pc = "sleep"
    /\ d' = [d EXCEPT !.pc = "get_addresses_batch"]
    /\ UNCHANGED <<script, d_ckpt, vested_csv, h_vars, ev, g>>

D_Crash ==
    /\ d.pc \notin {"idle", "done", "failed"}
    /\ \E k \in 0..Len(d.buf) :
          vested_csv' = IF d.pc = "write_to_csv_close"
                        THEN flushed(vested_csv, d.buf, k) ELSE vested_csv
    /\ d' = D0
    /\ g' = EndedEarly(g, D_inflight(d))
    /\ UNCHANGED <<script, d_ckpt, h_vars, ev>>

D_Next ==
    \/ D_Start \/ D_Load \/ D_GetAddressesBatchOk \/ D_GetAddressesBatchErr
    \/ D_WorkerStart \/ D_WorkerResponse \/ D_WorkerReturn \/ D_WorkerErr
    \/ D_WorkerRaise \/ D_Collect \/ D_BatchReturn
    \/ D_WriteOpen \/ D_WriteClose \/ D_SaveOpen \/ D_SaveClose \/ D_Sleep \/ D_Crash

Next == H_Next \/ D_Next

Spec == Init /\ [][Next]_vars

\* --------------------------------- the derivation as its own specification
\* The amount texts the derivation is checked on: a body, then a suffix, or
\* no 'amount' key at all.
AmountBodies ==
    { <<>>, <<"5">>, <<"5", "0", "0">>, <<"9", "9", "9">>, <<"5", "a">>,
      <<"5", "x">>, <<"x">>, <<"5", "t">> }

AmountSuffixes == { <<>>, utia, <<"u", "t", "i">> }

DerivationEvents ==
    { [type |-> ty, has_amount |-> TRUE, amount |-> b \o sfx] :
        ty \in {"withdraw_rewards", "other"}, b \in AmountBodies, sfx \in AmountSuffixes }
    \cup { [type |-> ty, has_amount |-> FALSE, amount |-> <<>>] :
             ty \in {"withdraw_rewards", "other"} }

RECURSIVE SeqsUpTo(_, _)
SeqsUpTo(S, n) ==
    IF n = 0 THEN { <<>> }
    ELSE LET shorter == SeqsUpTo(S, n - 1)
         IN  shorter \cup { Append(q, x) : q \in shorter, x \in S }

InitDerivation ==
    /\ script = "derivation"
    /\ ev \in { [EV0 EXCEPT !.events = es] : es \in SeqsUpTo(DerivationEvents, MaxEvents) }
    /\ h_ckpt = Absent /\ tx_csv = NoFile /\ summary_csv = NoFile /\ h = H0
    /\ d_ckpt = Absent /\ vested_csv = NoFile /\ d = D0
    /\ g = G0

\* Lines 87-92 of process_address for one transaction's events.
Derive ==
    /\ script = "derivation"
    /\ ev.result = "none"
    /\ LET w == withdraw_amount(ev.events)
       IN  ev' = [ev EXCEPT !.result = IF w.ok THEN "value" ELSE "ValueError",
                            !.withdraw_amount = w.v]
    /\ UNCHANGED <<script, h_vars, d_vars, g>>

SpecDerivation == InitDerivation /\ [][Derive]_vars

\* ============================================================ properties
SinkLines ==
    SeqToSet(tx_csv.lines) \cup SeqToSet(summary_csv.lines) \cup SeqToSet(vested_csv.lines)

\* The units the persisted checkpoint says are done: History's rows up to
\* last_processed_row, Discovery's pages below offset.
H_covered == IF h_ckpt.st = "ok" THEN { u \in Units : u <= h_ckpt.v } ELSE {}

D_covered ==
    IF d_ckpt.st = "ok"
    THEN { u \in Units : u < d_ckpt.v /\ u % BATCH_SIZE = 0 }
    ELSE {}

\* The cursor a load returns for the file a run found: the default without
\* a file.
LoadedCursor ==
    IF g.at_load.st = "ok" THEN g.at_load.v
    ELSE IF script = "history" THEN -1 ELSE 0

LogUnits(ops) == { g.log[k][2] : k \in { j \in 1..Len(g.log) : g.log[j][1] \in ops } }

WriteOps == {"write_transactions", "write_summary", "write_to_csv"}

\* C1: the checkpoint advances only after the sink writes of the unit it
\* covers. Every unit the persisted checkpoint covers has been processed and
\* every line that processing computed (History: the row's transaction rows
\* and its summary row; Discovery: the page's vesting rows) is in its sink;
\* and while a save is writing the file, the lines of the unit being saved
\* are in the sinks already. Crash points are states like any other.
C1_CheckpointAfterSinkWrites ==
    /\ \A u \in H_covered \cup D_covered :
          u \in g.returned /\ g.due[u] \subseteq SinkLines
    /\ (h.pc = "save_checkpoint_close" => g.due[h.i] \subseteq SinkLines)
    /\ (d.pc = "save_checkpoint_close" => g.due[d.page] \subseteq SinkLines)

\* A restarted History run has saved row 1 with transaction rows on disk.
C1_Witness ==
    /\ h_ckpt.st = "ok" /\ h_ckpt.v >= 1
    /\ g.runs > 1
    /\ \E k \in 1..Len(tx_csv.lines) : tx_csv.lines[k].kind = "tx"

\* C2: resume correctness of History. A run that loaded last_processed_row
\* = k logs nothing (no process_address, no sink write, no save) for a row
\* <= k; the rows it processes are k+1, k+2, ... in this order; once it is
\* done it has processed exactly k+1..n-1, each with its summary written and
\* its checkpoint saved; and a run that found k = n-1 leaves the three files
\* as it found them.
C2_Processed ==
    LET idx == { j \in 1..Len(g.log) : g.log[j][1] = "process" }
    IN  [m \in 1..Cardinality(idx) |->
            g.log[CHOOSE j \in idx : Cardinality({ x \in idx : x <= j }) = m][2]]

C2_ResumeCorrectness ==
    (script = "history" /\ g.at_load.st \in {"absent", "ok"}) =>
        LET k == LoadedCursor
            n == Len(addresses)
        IN  /\ \A j \in 1..Len(g.log) : g.log[j][2] > k
            /\ \A m \in 1..Len(C2_Processed) : C2_Processed[m] = k + m
            /\ h.pc = "done" =>
                  /\ Len(C2_Processed) = (IF k >= n - 1 THEN 0 ELSE n - 1 - k)
                  /\ \A m \in 1..Len(C2_Processed) :
                        /\ C2_Processed[m] \in LogUnits({"write_summary"})
                        /\ C2_Processed[m] \in LogUnits({"save"})
                  /\ (k = n - 1 => <<h_ckpt, tx_csv, summary_csv>> = g.start)

\* A run resumed from last_processed_row = 0 is done, having processed rows.
C2_Witness ==
    /\ h.pc = "done"
    /\ g.at_load = Json(0)
    /\ LogUnits({"save"}) = 1..(NumRows - 1)

\* C3: a restart re-processes at most one unit. A run writes sink lines for
\* no unit whose checkpoint save had finished before the run started; a unit
\* that had lines in a sink when the run started and gets lines again was in
\* flight when an earlier run ended; and at most one unit is ever in that
\* position.
C3_AtMostOneUnitRedone ==
    /\ LogUnits(WriteOps) \cap g.completed_before = {}
    /\ (LogUnits(WriteOps) \cap g.had_rows) \subseteq g.partial_before
    /\ Cardinality(g.partial) <= 1

\* A restarted run writes again for the unit that was in flight, after an
\* earlier unit was completed.
C3_Witness ==
    /\ LogUnits(WriteOps) \cap g.had_rows # {}
    /\ g.completed_before # {}

\* C4: the persisted cursor never decreases. The cursors written by finished
\* saves, over all runs, are in non-decreasing order; the file, when it
\* holds a cursor, holds the last of them; and every cursor a run saves is at
\* least the cursor it loaded.
C4_CursorMonotonic ==
    /\ \A a, b \in 1..Len(g.saves) : a < b => g.saves[a] <= g.saves[b]
    /\ (h_ckpt.st = "ok" => g.saves # <<>> /\ h_ckpt.v = g.saves[Len(g.saves)])
    /\ (d_ckpt.st = "ok" => g.saves # <<>> /\ d_ckpt.v = g.saves[Len(g.saves)])
    /\ g.at_load.st \in {"absent", "ok"} =>
          \A j \in (g.saves_before + 1)..Len(g.saves) : g.saves[j] >= LoadedCursor

\* A Discovery run that loaded offset BATCH_SIZE has saved a further offset.
C4_Witness ==
    /\ script = "discovery"
    /\ g.at_load = Json(BATCH_SIZE)
    /\ Len(g.saves) > g.saves_before
    /\ d_ckpt.st = "ok"

\* C5: save_checkpoint overwrites the cursor atomically. When the process is
\* killed while a save is writing, the file is left readable: a later load
\* finds a cursor in it, or no file where none had been saved, never an
\* empty or cut file.
C5_SaveIsAtomic ==
    [][ /\ (h.pc = "save_checkpoint_close" /\ h'.pc = "idle")
            => h_ckpt'.st \in {"absent", "ok"}
        /\ (d.pc = "save_checkpoint_close" /\ d'.pc = "idle")
            => d_ckpt'.st \in {"absent", "ok"} ]_vars

\* C6: a checkpoint file that exists and cannot be read (not JSON, or no
\* cursor key) ends the run at startup: the run is failed, has logged no
\* processing, no sink write and no save, and the files are as it found
\* them. Without a file the run goes on from the default cursor, -1 in
\* History and 0 in Discovery.
C6_CorruptCheckpointIsFatal ==
    /\ g.at_load.st \in {"garbage", "nokey"} =>
          /\ script = "history" => h.pc = "failed" /\ g.start = <<h_ckpt, tx_csv, summary_csv>>
          /\ script = "discovery" => d.pc = "failed" /\ g.start = <<d_ckpt, vested_csv>>
          /\ g.log = <<>>
    /\ g.at_load.st = "absent" =>
          /\ h.pc \notin {"idle", "failed"} => h.last_processed_row = -1
          /\ (d.pc = "get_addresses_batch" /\ g.log = <<>>) => d.offset = 0
          /\ (d.pc \notin {"idle", "failed"} /\ g.log # <<>>) => g.log[1][2] = 0

\* A run found the file a killed save left behind, and failed at startup.
C6_Witness ==
    /\ g.at_load.st = "garbage"
    /\ g.completed # {}
    /\ h.pc = "failed" \/ d.pc = "failed"

\* C7: History never lets a transport error out. A step from a request
\* (of a transaction page, or of a transaction's events) leads to its
\* answer, to the backoff, or to the process being killed, never to the end
\* of the run; the backoff leads back to the request; and over the failure
\* and the backoff the request (row, offset, transaction), the collected
\* transactions, the three files and the log are unchanged. The page a
\* successful attempt returns is the one the upstream holds at that offset.
\* However often a request has failed, it can fail and be retried again.
C7_Request(hh) == <<hh.i, hh.offset, hh.t, hh.page_len, hh.all_transactions>>

C7_Files == <<h_ckpt, tx_csv, summary_csv, g.log, g.saves>>

C7_RetryForever ==
    [][ /\ h.pc = "get_transactions" =>
              /\ h'.pc \in {"tx_rate_sleep", "tx_backoff", "idle"}
              /\ h'.pc = "tx_rate_sleep" =>
                    h'.page_len = TxPageLen(H_address(h), h.offset)
        /\ h.pc = "get_transaction_events" =>
              h'.pc \in {"ev_rate_sleep", "ev_backoff", "idle"}
        /\ h.pc = "tx_backoff" => h'.pc \in {"get_transactions", "idle"}
        /\ h.pc = "ev_backoff" => h'.pc \in {"get_transaction_events", "idle"}
        /\ ( \/ h'.pc \in {"tx_backoff", "ev_backoff"}
             \/ (h.pc \in {"tx_backoff", "ev_backoff"} /\ h'.pc # "idle") ) =>
              /\ C7_Request(h') = C7_Request(h)
              /\ C7_Files' = C7_Files
        /\ h.pc = "get_transactions" => ENABLED H_GetTransactionsErr
        /\ h.pc = "get_transaction_events" => ENABLED H_GetEventsErr ]_vars

\* The request of the second page of a row is being retried after
\* MaxAttempts failures.
C7_Witness ==
    /\ h.pc = "get_transactions"
    /\ h.attempts = MaxAttempts
    /\ h.offset = TX_BATCH_SIZE

\* C8: Discovery retries a failed address-page fetch and finishes only on
\* an empty page: a finished run's last fetch answered, with no address.
C8_FinishesOnlyOnEmptyPage ==
    d.pc = "done" => (~d.none /\ d.addresses = <<>> /\ UpstreamPage(d.offset) = <<>>)

\* C9: a failed lookup costs its own address's records only. A lookup whose
\* request raised a RequestException finishes with None, not with an
\* exception; what process_addresses_batch returns holds exactly the rows of
\* the addresses whose lookup succeeded, each once; and after the sink write
\* and the checkpoint save that follow, those rows are in the sink and the
\* checkpoint is the page's offset plus BATCH_SIZE.
C9_BatchReturned ==
    d.pc \in {"write_to_csv", "write_to_csv_close", "save_checkpoint",
              "save_checkpoint_close", "sleep"}

C9_RowsOfSucceeded ==
    UNION { SeqToSet(D_rows(d.page, d.addresses[k], VestingIds(d.addresses[k]))) :
              k \in { j \in 1..Len(d.futures) : d.futures[j] = "ok" } }

C9_FailedLookupIsContained ==
    /\ \A k \in d.errors : d.futures[k] = "none"
    /\ C9_BatchReturned =>
          /\ \A k \in 1..Len(d.futures) : d.futures[k] \in {"ok", "none"}
          /\ SeqToSet(d.vested_addresses) = C9_RowsOfSucceeded
          /\ Len(d.vested_addresses) = Cardinality(C9_RowsOfSucceeded)
    /\ (d.pc = "sleep" /\ d_ckpt.st = "ok") =>
          /\ d_ckpt.v = d.page + BATCH_SIZE
          /\ C9_RowsOfSucceeded \subseteq SeqToSet(vested_csv.lines)

\* A page with one failed lookup and one that found records is written and
\* checkpointed.
C9_Witness ==
    /\ d.pc = "sleep"
    /\ d.errors # {}
    /\ C9_RowsOfSucceeded # {}
    /\ C9_RowsOfSucceeded \subseteq SeqToSet(vested_csv.lines)
    /\ d_ckpt = Json(d.page + BATCH_SIZE)

\* C10: withdraw_amount is the sum, over the events of type
\* 'withdraw_rewards' whose amount ends with 'utia', of the integer that is
\* left when that suffix is cut off; every other event contributes 0. Where
\* what is left is no integer, no integer is obtained and the event adds
\* nothing.
C10_strip_suffix(s) == SubSeq(s, 1, Len(s) - Len(utia))

RECURSIVE C10_Sum(_)
C10_Sum(events) ==
    IF events = <<>> THEN 0
    ELSE LET e == Head(events)
             counts == /\ e.type = "withdraw_rewards"
                       /\ e.has_amount
                       /\ endswith(e.amount, utia)
         IN  (IF counts THEN int(C10_strip_suffix(e.amount)).v ELSE 0)
             + C10_Sum(Tail(events))

C10_AmountIsSuffixStrippedSum ==
    ev.result # "none" =>
        /\ ev.result = "value"
        /\ ev.withdraw_amount = C10_Sum(ev.events)

\* C11: a malformed amount never aborts processing. When the events of a
\* transaction hold a 'withdraw_rewards' event whose amount ends with 'utia'
\* and is no integer before it, the step that derives the transaction's
\* amount does not end the run: the transaction is appended with the sum of
\* the well-formed events (the malformed one adding 0) and processing goes on
\* with the next transaction, the next page or the row's sink writes.
C11_Malformed(event) == IsWithdrawEvent(event) /\ ~EventAmount(event).ok

RECURSIVE C11_SumOfWellFormed(_)
C11_SumOfWellFormed(events) ==
    IF events = <<>> THEN 0
    ELSE (IF IsWithdrawEvent(Head(events)) /\ EventAmount(Head(events)).ok
          THEN EventAmount(Head(events)).v ELSE 0)
         + C11_SumOfWellFormed(Tail(events))

C11_MalformedAmountNeverAborts ==
    [][ ( /\ h.pc = "ev_rate_sleep"
          /\ \E k \in 1..Len(h.events) : C11_Malformed(h.events[k])
          /\ h'.pc # "idle" ) =>
            /\ h'.pc \in {"get_transaction_events", "get_transactions", H_statements[1]}
            /\ Len(h'.all_transactions) = Len(h.all_transactions) + 1
            /\ h'.all_transactions[Len(h'.all_transactions)].amt
                  = C11_SumOfWellFormed(h.events) ]_vars

\* C12: the header invariant of the three sinks. A sink that holds rows
\* holds exactly one header row, and it is the first row; and once a write
\* call has returned (the next statement of the loop body is reached), the
\* sink it wrote holds rows. This is stated over all runs and restarts,
\* starting from absent files.
C12_HeaderFirstAndOnly(file) ==
    file.lines # <<>> =>
        /\ file.lines[1] = Header
        /\ \A k \in 2..Len(file.lines) : file.lines[k] # Header

C12_ExactlyOneHeader ==
    /\ C12_HeaderFirstAndOnly(tx_csv)
    /\ C12_HeaderFirstAndOnly(summary_csv)
    /\ C12_HeaderFirstAndOnly(vested_csv)
    /\ (d.pc = After(D_statements, "write_to_csv") /\ d.vested_addresses # <<>>)
          => vested_csv.lines # <<>>
    /\ (h.pc = After(H_statements, "write_summary")) => summary_csv.lines # <<>>

\* The same for History's two sinks alone.
C12_HistorySinks ==
    /\ C12_HeaderFirstAndOnly(tx_csv)
    /\ C12_HeaderFirstAndOnly(summary_csv)

\* C13: History's paging of one address's transactions halts exactly on an
\* empty or a short page. Every request of a page carries as offset the
\* number of transactions received so far for the address. An empty page
\* ends the paging (process_address returns). Once the last transaction of a
\* page is done, a full page is followed by the request of the next page, at
\* the offset advanced by the page's length, and a short page by the return.
\* A page is requested only at the start of a row (offset 0), after a
\* backoff (the same request) or after a full page. A kill, or the
\* exception of C11 inside a page, ends the run and with it the paging.
C13_PagingHaltsOnShortPage ==
    [][ /\ h.pc = "get_transactions" => h.offset = Len(h.all_transactions)
        /\ (h.pc = "tx_rate_sleep" /\ h.page_len = 0 /\ h'.pc # "idle") =>
              /\ h'.pc = H_statements[1]
              /\ h'.all_transactions = h.all_transactions
        /\ ( /\ h.pc = "ev_rate_sleep" /\ h.t + 1 = h.page_len
             /\ h'.pc \notin {"idle", "failed"} ) =>
              /\ h.page_len = TX_BATCH_SIZE =>
                    h'.pc = "get_transactions" /\ h'.offset = h.offset + TX_BATCH_SIZE
              /\ h.page_len < TX_BATCH_SIZE => h'.pc = H_statements[1]
        /\ (h'.pc = "get_transactions" /\ h.pc # "get_transactions") =>
              \/ h.pc = "for" /\ h'.offset = 0 /\ h'.all_transactions = <<>>
              \/ h.pc = "tx_backoff" /\ h'.offset = h.offset
              \/ h.pc = "ev_rate_sleep" /\ h.page_len = TX_BATCH_SIZE
                    /\ h.t + 1 = h.page_len ]_vars

\* An address's paging has returned after a full page and a short one.
C13_Witness ==
    /\ h.pc = H_statements[1]
    /\ h.offset = TX_BATCH_SIZE + 1
    /\ Len(h.all_transactions) = TX_BATCH_SIZE + 1

\* C14: every successful fetch pauses for the rate-limit interval before it
\* returns, and so the upstream sees one request per interval, concurrent
\* callers included. No durations are modelled; the claim is stated on the
\* order of requests and pauses. A step in which a request is answered leads
\* into that fetch's pause (History's two fetches, Discovery's address page
\* and its vesting lookups); and no request is outstanding, unanswered or
\* in its pause, while another one is: the pool's workers included, a
\* request waits for the pause of the one before it.
C14_Outstanding ==
    Cardinality(D_running(d))
    + (IF d.pc = "get_addresses_batch" THEN 1 ELSE 0)

C14_PauseAfterEveryFetch ==
    [][ /\ (h.pc = "get_transactions" /\ h'.pc \notin {"tx_backoff", "idle"})
              => h'.pc = "tx_rate_sleep"
        /\ (h.pc = "get_transaction_events" /\ h'.pc \notin {"ev_backoff", "idle"})
              => h'.pc = "ev_rate_sleep"
        /\ \A k \in 1..Len(d.futures) :
              (d.futures[k] = "running" /\ d'.pc = "process_addresses_batch")
                  => d'.futures[k] \in {"running", "sleeping", "none", "raised"}
        /\ (d.pc = "get_addresses_batch" /\ d'.pc \notin {"idle", "failed"} /\ ~d'.none)
              => d'.pc \in {"sleep", "done"}
        /\ C14_Outstanding <= 1 ]_vars

\* The part that is about the pool alone: one lookup outstanding at a time.
C14_OneLookupAtATime == Cardinality(D_running(d)) <= 1

\* C15: Discovery advances its offset, and the checkpoint it saves, by the
\* number of addresses the page returned. The cursor a save is writing is
\* the page's offset plus the page's length; and the persisted offset is the
\* initial offset, 0, plus the number of addresses of the pages completed.
RECURSIVE C15_AddressesOf(_)
C15_AddressesOf(pages) ==
    IF pages = {} THEN 0
    ELSE LET u == CHOOSE x \in pages : TRUE
         IN  Len(UpstreamPage(u)) + C15_AddressesOf(pages \ {u})

C15_OffsetAdvancesByReturned ==
    /\ d.pc = "save_checkpoint_close" => d.offset = d.page + Len(d.addresses)
    /\ (script = "discovery" /\ d_ckpt.st = "ok")
          => d_ckpt.v = C15_AddressesOf(g.completed)

\* C16: a page the Discovery checkpoint has advanced past is fully durable.
\* For every page below the persisted offset and every address the upstream
\* lists on it, the vesting records the upstream holds for the address are
\* rows of the vesting sink, whatever lookups failed and wherever the process
\* was killed.
C16_RecordsOf(u) ==
    UNION { SeqToSet(D_rows(u, UpstreamPage(u)[k], VestingIds(UpstreamPage(u)[k]))) :
              k \in 1..Len(UpstreamPage(u)) }

C16_CheckpointedPageIsDurable ==
    \A u \in D_covered : C16_RecordsOf(u) \subseteq SeqToSet(vested_csv.lines)

\* C17: process_addresses_batch. There is one lookup per address of the
\* batch, and a lookup that has finished is not run again; at most
\* max_workers lookups are in flight at any time; whatever the interleaving
\* and the completion order, the rows the batch returns are exactly the
\* vesting rows of the addresses whose lookup succeeded, each row once and
\* tagged with its address. While the batch is running, no step writes the
\* sink or the checkpoint; the driver writes them, and only when no lookup
\* is queued or in flight.
C17_Finished == {"ok", "none", "raised"}

C17_DriverWrites ==
    {"write_to_csv", "write_to_csv_close", "save_checkpoint", "save_checkpoint_close"}

C17_BoundedPoolSameRows ==
    [][ /\ Cardinality(D_running(d)) <= max_workers
        /\ d.pc = "process_addresses_batch" =>
              /\ Len(d.futures) = Len(d.addresses)
              /\ d.collected \subseteq { k \in 1..Len(d.futures) : d.futures[k] \in C17_Finished }
        /\ (d.pc = "process_addresses_batch" /\ d'.pc = "process_addresses_batch") =>
              /\ \A k \in 1..Len(d.futures) :
                    /\ d.futures[k] \in C17_Finished => d'.futures[k] = d.futures[k]
                    /\ d.futures[k] \in {"running", "sleeping"} => d'.futures[k] # "queued"
              /\ d'.addresses = d.addresses
        /\ d.pc = "process_addresses_batch" => <<vested_csv, d_ckpt>>' = <<vested_csv, d_ckpt>>
        /\ <<vested_csv, d_ckpt>>' # <<vested_csv, d_ckpt>> => d.pc \in C17_DriverWrites
        /\ d.pc \in C17_DriverWrites =>
              /\ \A k \in 1..Len(d.futures) : d.futures[k] \in {"ok", "none"}
              /\ SeqToSet(d.vested_addresses) = C9_RowsOfSucceeded
              /\ Len(d.vested_addresses) = Cardinality(C9_RowsOfSucceeded)
              /\ \A j \in 1..Len(d.vested_addresses) :
                    \E k \in 1..Len(d.addresses) :
                       /\ d.vested_addresses[j].addr = d.addresses[k]
                       /\ d.vested_addresses[j].n \in VestingIds(d.addresses[k]) ]_vars

\* A batch larger than the pool has returned its rows in another order than
\* the addresses': the rows of address 2 before the row of address 1.
C17_Witness ==
    /\ d.pc = "write_to_csv"
    /\ Len(d.addresses) > max_workers
    /\ Len(d.vested_addresses) = 3
    /\ d.vested_addresses[1].addr = 2
    /\ d.vested_addresses[3].addr = 1

\* C18, as claimed: once a History run has completed, whatever runs, kills
\* and restarts came before, the summary sink holds exactly one summary row
\* for each input address, written after the address's transactions were
\* processed; its withdraw_count is the number of transaction rows of the
\* address in the transactions sink and its sum_withdrawn_amount the sum of
\* their withdraw_amount.
C18_Completed == script = "history" /\ h.pc = "done"

C18_Rows(file, kind) ==
    { k \in 1..Len(file.lines) : file.lines[k].kind = kind }

RECURSIVE C18_SumAmt(_, _)
C18_SumAmt(file, ks) ==
    IF ks = {} THEN 0
    ELSE LET k == CHOOSE x \in ks : TRUE
         IN  file.lines[k].amt + C18_SumAmt(file, ks \ {k})

C18_OneSummaryPerAddress ==
    C18_Completed =>
        \A a \in SeqToSet(addresses) :
            LET ss == { k \in C18_Rows(summary_csv, "summary") : summary_csv.lines[k].addr = a }
                ts == { k \in C18_Rows(tx_csv, "tx") : tx_csv.lines[k].addr = a }
            IN  /\ Cardinality(ss) = 1
                /\ \A k \in ss :
                      /\ summary_csv.lines[k].unit \in g.returned
                      /\ summary_csv.lines[k].n = Cardinality(ts)
                      /\ summary_csv.lines[k].amt = C18_SumAmt(tx_csv, ts)

\* C18, amended: once a History run has completed against an upstream whose
\* answers did not change, the summary sink holds for every input address at
\* least as many summary rows as input rows name it, and in total at most
\* one row more for each restart (so exactly one per input row when the run
\* was the only one); every summary row was written after the row's
\* transactions were processed, and its withdraw_count and
\* sum_withdrawn_amount are the number and the sum of withdraw_amount of the
\* distinct transactions of its address in the transactions sink.
RECURSIVE C18_SumOfDistinct(_)
C18_SumOfDistinct(txs) ==
    IF txs = {} THEN 0
    ELSE LET t == CHOOSE x \in txs : TRUE
         IN  t.amt + C18_SumOfDistinct(txs \ {t})

C18_SummaryMatchesTransactions ==
    C18_Completed =>
        /\ \A a \in SeqToSet(addresses) :
              LET ss == { k \in C18_Rows(summary_csv, "summary") :
                            summary_csv.lines[k].addr = a }
                  ts == { [n |-> tx_csv.lines[k].n, amt |-> tx_csv.lines[k].amt] :
                            k \in { j \in C18_Rows(tx_csv, "tx") : tx_csv.lines[j].addr = a } }
              IN  /\ Cardinality(ss) >= Cardinality({ r \in 1..NumRows : addresses[r] = a })
                  /\ \A k \in ss :
                        /\ summary_csv.lines[k].unit \in g.returned
                        /\ summary_csv.lines[k].n = Cardinality(ts)
                        /\ summary_csv.lines[k].amt = C18_SumOfDistinct(ts)
        /\ Cardinality(C18_Rows(summary_csv, "summary")) <= NumRows + g.runs - 1

\* A run has completed after a restart that wrote a row's summary again.
C18_Witness ==
    /\ C18_Completed
    /\ g.runs >= 2
    /\ Cardinality(C18_Rows(summary_csv, "summary")) = NumRows + 1
    /\ \E k \in C18_Rows(tx_csv, "tx") : tx_csv.lines[k].amt > 0

\* ------------------------------------ History without kills, under fairness
\* The process is not killed, so a step that can be taken is taken in the
\* end (weak fairness of the sequential program's steps), and every request
\* fails only finitely often (strong fairness of its answer: between two
\* failures the request is in its backoff, where no answer is enabled).
H_Progress ==
    \/ H_Load \/ H_For \/ H_TxBackoff \/ H_TxReturn \/ H_EvBackoff \/ H_EvReturn
    \/ H_WriteTransactionsOpen \/ H_WriteTransactionsClose
    \/ H_WriteSummaryOpen \/ H_WriteSummaryClose
    \/ H_SaveOpen \/ H_SaveClose \/ H_Sleep

NextLive ==
    \/ H_Start \/ H_Progress
    \/ H_GetTransactionsOk \/ H_GetTransactionsErr
    \/ H_GetEventsOk \/ H_GetEventsErr

InitLive == Init /\ script = "history"

SpecLive ==
    /\ InitLive
    /\ [][NextLive]_vars
    /\ WF_vars(H_Progress)
    /\ SF_vars(H_GetTransactionsOk)
    /\ SF_vars(H_GetEventsOk)

\* C19: liveness of History. With every request failing only finitely often
\* and no kill, a run that has loaded checkpoint k over the n input rows
\* eventually terminates with the persisted checkpoint n - 1 and a summary
\* row written for each of the rows k+1..n-1. (That a request which fails
\* forever keeps the run from terminating is C7's: a failure leads only to
\* the backoff and back to the request.)
C19_RunLoaded ==
    /\ script = "history"
    /\ h.pc = "for"
    /\ g.at_load.st \in {"absent", "ok"}

C19_RunTerminated ==
    /\ h.pc = "done"
    /\ h_ckpt = Json(NumRows - 1)
    /\ \A u \in (LoadedCursor + 1)..(NumRows - 1) : u \in LogUnits({"write_summary"})

C19_EventuallyTerminates == C19_RunLoaded ~> C19_RunTerminated

\* C20: an exception other than a transport error, raised while a unit is
\* processed (History: the ValueError of a row's amount; Discovery: the
\* exception of a lookup, handed over by future.result()), ends the run with
\* no checkpoint saved for the unit. In the failed run's last state the
\* checkpoint file is readable as before, the run has logged no save for
\* the failed unit, that unit is the one unit left unfinished, and the
\* cursor in the file is the one a run loads to start at that unit (History:
\* the unit's index minus one; Discovery: the page's offset). And a run that
\* starts with a unit left unfinished processes that unit first.
C20_FailedInUnit(pc) == pc = "failed" /\ g.at_load.st \in {"absent", "ok"}

C20_ExceptionSavesNoCheckpoint ==
    /\ (script = "history" /\ C20_FailedInUnit(h.pc)) =>
          /\ h_ckpt.st \in {"absent", "ok"}
          /\ g.partial = {H_load_checkpoint(h_ckpt).cursor + 1}
          /\ g.partial \cap (g.completed \cup LogUnits({"save"})) = {}
    /\ (script = "discovery" /\ C20_FailedInUnit(d.pc)) =>
          /\ d_ckpt.st \in {"absent", "ok"}
          /\ g.partial = {D_load_checkpoint(d_ckpt).cursor}
          /\ g.partial \cap (g.completed \cup LogUnits({"save"})) = {}
    /\ (g.partial_before # {} /\ g.at_load.st \in {"absent", "ok"} /\ C2_Processed # <<>>)
          => C2_Processed[1] \in g.partial_before

\* A Discovery run that resumed at the page left unfinished, after an
\* earlier page was completed, has ended with a lookup's exception.
C20_Witness ==
    /\ d.pc = "failed"
    /\ g.at_load = Json(BATCH_SIZE)
    /\ g.partial_before = {BATCH_SIZE}
    /\ C2_Processed = <<BATCH_SIZE>>
    /\ d_ckpt = Json(BATCH_SIZE)
====
